---- MODULE Spec2Model ----
(***************************************************************************)
(* The release pipeline of cosmosys: the step registry (StepFactory), the  *)
(* sequential executor with rollback (ReleaseManager) and the built-in     *)
(* steps, as state machines.                                               *)
(*                                                                         *)
(* Version strings are sequences of naturals ("1.0.0" is <<1, 0, 0>>, the  *)
(* malformed "1.2" is <<1, 2>>); None is the empty sequence.               *)
(***************************************************************************)
EXTENDS Integers, Sequences, FiniteSets, TLC

\* Longest step list handed to execute_steps.
MaxSteps == 3
\* Most register calls in one behaviour of the registry specification.
MaxRegs == 3

-----------------------------------------------------------------------------
(* Names and classes *)

\* The names the @StepFactory.register decorators of cosmosys.steps use.
BuiltinNames ==
    {"version_update", "changelog_update", "git_commit", "git_tag",
     "build_python", "publish_pypi", "build_rust", "publish_crates_io",
     "build_node", "publish_npm"}

\* A step module dropped into the plugin directory, and a name nobody registers.
PluginName == "my_plugin"
UnknownName == "unknown_step"

Names == BuiltinNames \cup {PluginName, UnknownName}

\* dict.get's answer for a missing key.
NoClass == "None"

\* The class each decorator registers under each built-in name.
BuiltinClass(n) ==
    CASE n = "version_update"    -> "VersionUpdateStep"
      [] n = "changelog_update"  -> "ChangelogUpdateStep"
      [] n = "git_commit"        -> "GitCommitStep"
      [] n = "git_tag"           -> "GitTagStep"
      [] n = "build_python"      -> "BuildPythonStep"
      [] n = "publish_pypi"      -> "PublishPyPIStep"
      [] n = "build_rust"        -> "BuildRustStep"
      [] n = "publish_crates_io" -> "PublishCratesIoStep"
      [] n = "build_node"        -> "BuildNodeStep"
      [] n = "publish_npm"       -> "PublishNpmStep"

PluginClass == "MyPluginStep"
OtherPluginClass == "OtherPluginStep"

\* The steps that only wrap one subprocess.run(..., check=True).
CommandClasses ==
    {"BuildPythonStep", "PublishPyPIStep", "BuildRustStep",
     "PublishCratesIoStep", "BuildNodeStep", "PublishNpmStep"}

Classes ==
    {BuiltinClass(n) : n \in BuiltinNames} \cup {PluginClass, OtherPluginClass}

-----------------------------------------------------------------------------
(* StepFactory *)

\* A faulty register: the first registration of a name is kept
\* (dict.setdefault).
register_keep_first(reg, step_name, step_class) ==
    IF reg[step_name] = NoClass
    THEN [reg EXCEPT ![step_name] = step_class]
    ELSE reg

\* StepFactory.register(step_name)(step_class): cls._steps[step_name] = step_class
register(reg, step_name, step_class) ==
    [reg EXCEPT ![step_name] = step_class]

\* StepFactory._steps = {} at class creation.
EmptyRegistry == [n \in Names |-> NoClass]

\* The registry once cosmosys.steps is imported: every decorator has run.
BuiltinRegistry ==
    [n \in Names |-> IF n \in BuiltinNames THEN BuiltinClass(n) ELSE NoClass]

\* The registry once PluginManager.load_plugins has registered my_plugin.py.
StartupRegistry == register(BuiltinRegistry, PluginName, PluginClass)

\* A faulty test: no name is ever unknown.
unknown_never(step_class) == FALSE

\* create's test `if not step_class`: the name has no registration.
unknown_step(step_class) == step_class = NoClass

\* cls._steps.get(step_name)
lookup(reg, step_name) == reg[step_name]

-----------------------------------------------------------------------------
(* Versions *)

None == <<>>

\* A pre-release version MAJOR.MINOR.PATCH-rc.N has N as a fourth component.
\* semver.VersionInfo.parse accepts MAJOR.MINOR.PATCH with or without one.
valid_version(v) == Len(v) \in {3, 4}

\* A faulty bump_minor: the patch component is kept.
bump_minor_keep_patch(v) == <<v[1], v[2] + 1, v[3]>>

\* semver's bump_major, bump_minor, bump_patch: a new VersionInfo, the
\* components to the right reset, any pre-release dropped.
bump_major(v) == <<v[1] + 1, 0, 0>>
bump_minor(v) == <<v[1], v[2] + 1, 0>>
bump_patch(v) == <<v[1], v[2], v[3] + 1>>

\* semver's bump_prerelease: rc.1 is attached, or the number after rc raised.
bump_prerelease(v) ==
    IF Len(v) = 3 THEN Append(v, 1) ELSE [v EXCEPT ![4] = @ + 1]

-----------------------------------------------------------------------------
(* Step instances, the configuration and the world outside the process *)

\* Optional[str] fields: None, or a value that may itself be empty.
NoContent == [some |-> FALSE, text |-> <<>>]
NoHash == [some |-> FALSE, tok |-> 0]

\* Python truthiness of an Optional[str]: neither None nor "".
truthy_content(c) == c.some /\ c.text # <<>>

\* The constructors that do more than store the context: GitTagStep opens
\* Repo("."), and a plugin's constructor is arbitrary code.
ctor_may_raise(step_class) ==
    step_class \in {"GitTagStep", PluginClass, OtherPluginClass}

\* Step.__init__ and the __init__ of each subclass: a fresh instance; id is
\* the identity of the new object.  The object execute_steps hands to create
\* as the context is taken to carry what Step.__init__ reads from it (config,
\* console).
new_step(step_class, cfg, id) ==
    [cls              |-> step_class,
     id               |-> id,
     old_version      |-> None,
     new_version      |-> None,
     original_content |-> NoContent,
     commit_hash      |-> NoHash,
     tag_name         |-> IF step_class = "GitTagStep" THEN cfg.version ELSE None]

\* A command handed to subprocess.run or to GitPython, or a question put to
\* the user, as the world saw it; the command exited with 0.
ran(en, cmd, arg) ==
    [en EXCEPT !.cmds = Append(@, [cmd |-> cmd, arg |-> arg, exit |-> 0])]

\* The same command exiting with a non-zero status: CalledProcessError under
\* check=True, GitCommandError under GitPython.
failed(en, cmd, arg) ==
    [en EXCEPT !.cmds = Append(@, [cmd |-> cmd, arg |-> arg, exit |-> 1])]

\* A faulty format: the template is used as it is.
format_message_verbatim(template, v) == [text |-> template, version |-> None]

\* message.format(version=version): the {version} field of the template is
\* replaced by the version, every other token is kept.
format_message(template, v) ==
    [text    |-> template,
     version |-> IF \E k \in 1..Len(template) : template[k] = "{version}"
                 THEN v ELSE None]

\* A faulty choice of token: the first one, split()[0].
first_token(stdout) == stdout[1]

\* result.stdout.strip().split()[-1]
last_token(stdout) == stdout[Len(stdout)]

\* A faulty handler: the error of a failed command is let out of execute.
on_command_error_raise(step_class) == "raise"

\* `except subprocess.CalledProcessError: return False` in GitCommitStep and
\* in the build and publish steps, `except GitCommandError: return False` in
\* GitTagStep: what execute does when its command exits non-zero.
on_command_error(step_class) == "False"

\* The first position of x in s: list.index.
RECURSIVE index_from(_, _, _)
index_from(s, x, k) ==
    IF s[k] = x THEN k ELSE index_from(s, x, k + 1)

index(s, x) == index_from(s, x, 1)

\* steps[: steps.index(step_name)]
slice_before(s, step_name) == SubSeq(s, 1, index(s, step_name) - 1)

\* A faulty order: the list is walked front to back.
in_order(s) == [k \in 1..Len(s) |-> k]

\* reversed(executed_steps), as the positions of the list in the order visited.
reversed(s) == [k \in 1..Len(s) |-> Len(s) + 1 - k]

-----------------------------------------------------------------------------
(* VersionUpdateStep *)

\* _bump_version_part: the result, a version or a raised exception.
\* VersionInfo has no bump_premajor, bump_preminor or bump_prepatch, so those
\* branches raise AttributeError; an unrecognised part is reported and the
\* old version is returned.
_bump_version_part(old_version, part) ==
    CASE part = "major"      -> [raised |-> FALSE, v |-> bump_major(old_version)]
      [] part = "minor"      -> [raised |-> FALSE, v |-> bump_minor(old_version)]
      [] part = "patch"      -> [raised |-> FALSE, v |-> bump_patch(old_version)]
      [] part \in {"premajor", "preminor", "prepatch"}
                             -> [raised |-> TRUE, v |-> None]
      [] part = "prerelease" -> [raised |-> FALSE, v |-> bump_prerelease(old_version)]
      [] OTHER               -> [raised |-> FALSE, v |-> old_version]

\* What the interactive prompt may answer: version_options, and the version
\* typed after "custom".
PromptChoices ==
    {"major", "minor", "patch", "premajor", "preminor", "prepatch", "prerelease",
     "custom"}
PromptVersions == {<<2, 0, 0>>, <<1, 2>>}

\* A faulty precedence: the override is used only when no part is configured.
override_last(cfg) == cfg.new_version # None /\ cfg.version_part = ""

\* `if self.config.new_version`, the first test of _get_new_version.
has_override(cfg) == cfg.new_version # None

\* _get_new_version: the set of results, each a version or a raised
\* exception; asked tells whether typer.prompt was called.
_get_new_version(old_version, cfg) ==
    IF has_override(cfg)
    THEN {[raised |-> ~valid_version(cfg.new_version), v |-> cfg.new_version,
           asked |-> FALSE]}
    ELSE IF cfg.version_part # ""
    THEN {[raised |-> _bump_version_part(old_version, cfg.version_part).raised,
           v      |-> _bump_version_part(old_version, cfg.version_part).v,
           asked  |-> FALSE]}
    ELSE {[raised |-> _bump_version_part(old_version, c).raised,
           v      |-> _bump_version_part(old_version, c).v,
           asked  |-> TRUE] : c \in PromptChoices \ {"custom"}}
         \cup {[raised |-> ~valid_version(v), v |-> v, asked |-> TRUE] :
                   v \in PromptVersions}

\* _update_toml_file, _update_json_file, _update_python_file: the version
\* entry of the file becomes str(self.new_version).
_update_keyed_file(f, st) == [f EXCEPT !.version = st.new_version]

\* _update_other_file: content.replace(str(old_version), str(new_version)).
_update_other_file(f, st) ==
    IF f.version = st.old_version THEN [f EXCEPT !.version = st.new_version] ELSE f

\* The loop of _update_version_in_files over self.version_files: a missing
\* file is skipped with a warning.
_update_files(files, st) ==
    [n \in DOMAIN files |->
        IF ~files[n].exists THEN files[n]
        ELSE IF files[n].kind = "other" THEN _update_other_file(files[n], st)
        ELSE _update_keyed_file(files[n], st)]

\* _update_version_in_files, then _update_git_tags: repo.create_tag raises
\* when the tag exists.
_update_version_in_files(st, cfg, en) ==
    LET written == [en EXCEPT !.files = _update_files(en.files, st)] IN
    IF ~cfg.update_git_tags
    THEN [raised |-> FALSE, env |-> written]
    ELSE IF st.new_version \in en.tags
    THEN [raised |-> TRUE, env |-> written]
    ELSE [raised |-> FALSE,
          env |-> [written EXCEPT !.tags = @ \cup {st.new_version}]]

\* VersionUpdateStep.execute
VersionUpdate_execute(st, cfg, en) ==
    IF ~valid_version(cfg.version)
    THEN {[ret |-> "raise", step |-> st, config |-> cfg, env |-> en]}
    ELSE
      LET st1 == [st EXCEPT !.old_version = cfg.version] IN
      { LET en1 == IF r.asked THEN ran(en, "typer.prompt", <<>>) ELSE en IN
        IF r.raised
        THEN [ret |-> "raise", step |-> st1, config |-> cfg, env |-> en1]
        ELSE
          LET st2 == [st1 EXCEPT !.new_version = r.v]
              w   == _update_version_in_files(st2, cfg, en1)
          IN IF r.v = None
             THEN [ret |-> "False", step |-> st2, config |-> cfg, env |-> en1]
             ELSE IF w.raised
             THEN [ret |-> "raise", step |-> st2, config |-> cfg, env |-> w.env]
             ELSE [ret |-> "True", step |-> st2,
                   config |-> [cfg EXCEPT !.version = r.v], env |-> w.env]
        : r \in _get_new_version(cfg.version, cfg) }

\* A faulty rollback: the version execute computed is written back.
kept_version(st) == st.new_version

\* The version rollback assigns: str(self.old_version).
restored_version(st) == st.old_version

\* VersionUpdateStep.rollback: the context version is set first, then the
\* files are written again.
VersionUpdate_rollback(st, cfg, en) ==
    IF st.old_version # None
    THEN LET w == _update_version_in_files(st, cfg, en) IN
         {[raised |-> w.raised,
           config |-> [cfg EXCEPT !.version = restored_version(st)], env |-> w.env]}
    ELSE {[raised |-> FALSE, config |-> cfg, env |-> en]}

-----------------------------------------------------------------------------
(* ChangelogUpdateStep *)

\* The section execute writes in front of the old content; the date is the
\* day of the run.
changelog_header(v) == [version |-> v, sections |-> <<"Added", "Changed", "Fixed">>]

\* ChangelogUpdateStep.execute: open(..., "r+") raises IOError on a missing file.
ChangelogUpdate_execute(st, cfg, en) ==
    IF ~en.changelog.exists
    THEN {[ret |-> "False", step |-> st, config |-> cfg, env |-> en]}
    ELSE {[ret    |-> "True",
           step   |-> [st EXCEPT !.original_content =
                           [some |-> TRUE, text |-> en.changelog.text]],
           config |-> cfg,
           env    |-> [en EXCEPT !.changelog.text =
                           <<changelog_header(cfg.version)>> \o en.changelog.text]]}

\* ChangelogUpdateStep.rollback: open(..., "w") creates or truncates the file.
ChangelogUpdate_rollback(st, cfg, en) ==
    IF truthy_content(st.original_content)
    THEN {[raised |-> FALSE, config |-> cfg,
           env |-> [en EXCEPT !.changelog =
                        [exists |-> TRUE, text |-> st.original_content.text]]]}
    ELSE {[raised |-> FALSE, config |-> cfg, env |-> en]}

-----------------------------------------------------------------------------
(* GitCommitStep *)

\* The identifier git gives the next commit.
next_commit(en) == Len(en.commits) + 1

\* What git commit may print: the identifier alone, or a summary line that
\* ends in another word.
commit_stdouts(id) == {<<id>>, <<id, 0>>}

\* GitCommitStep.execute: _git_add, then _git_commit; CalledProcessError is
\* turned into False.  Each commit is kept with the output git printed for it.
GitCommit_execute(st, cfg, en) ==
    IF cfg.files_to_commit = <<>>
    THEN {[ret |-> "False", step |-> st, config |-> cfg, env |-> en]}
    ELSE
      LET added   == ran(en, "git add", cfg.files_to_commit)
          message == format_message(cfg.commit_message, cfg.version)
          tried   == ran(added, "git commit", message)
          id      == next_commit(en)
      IN  {[ret |-> on_command_error(st.cls), step |-> st, config |-> cfg,
            env |-> failed(en, "git add", cfg.files_to_commit)],
           [ret |-> on_command_error(st.cls), step |-> st, config |-> cfg,
            env |-> failed(added, "git commit", message)]}
          \cup
          {[ret    |-> "True",
            step   |-> [st EXCEPT !.commit_hash =
                            [some |-> TRUE, tok |-> last_token(out)]],
            config |-> cfg,
            env    |-> [tried EXCEPT !.commits =
                            Append(@, [id |-> id, msg |-> message, stdout |-> out])]] :
              out \in commit_stdouts(id)}

\* _git_reset: git reset --hard <hash>^ moves the branch to the parent of the
\* commit the token names, and fails when it names none.
_git_reset(en, tok) ==
    IF \E k \in 1..Len(en.commits) : en.commits[k].id = tok
    THEN [ran(en, "git reset", tok) EXCEPT !.commits =
              SubSeq(@, 1, (CHOOSE k \in 1..Len(@) : @[k].id = tok) - 1)]
    ELSE failed(en, "git reset", tok)

\* GitCommitStep.rollback: CalledProcessError is caught and reported.
GitCommit_rollback(st, cfg, en) ==
    IF st.commit_hash.some
    THEN {[raised |-> FALSE, config |-> cfg, env |-> _git_reset(en, st.commit_hash.tok)]}
    ELSE {[raised |-> FALSE, config |-> cfg, env |-> en]}

-----------------------------------------------------------------------------
(* GitTagStep *)

\* A faulty test: no tag is ever found.
tag_exists_never(st, en) == FALSE

\* tag_exists: self.tag_name in self.repo.tags
tag_exists(st, en) == st.tag_name \in en.tags

\* push_tag: a failed push is reported, nothing more.
push_tag(st, en) ==
    {failed(en, "git push", st.tag_name),
     [ran(en, "git push", st.tag_name) EXCEPT !.remote_tags = @ \cup {st.tag_name}]}

\* A faulty handler: a failed push makes execute return False.
on_push_error_fail(step_class) == "False"

\* `except GitCommandError` of push_tag: the failure is reported there, and
\* execute goes on to `return True`.
on_push_error(step_class) == "True"

\* GitTagStep.execute: GitCommandError from create_tag is turned into False.
GitTag_execute(st, cfg, en) ==
    IF tag_exists(st, en)
    THEN {[ret |-> "False", step |-> st, config |-> cfg, env |-> en]}
    ELSE
      LET created == [ran(en, "git tag", st.tag_name)
                          EXCEPT !.tags = @ \cup {st.tag_name}]
      IN  {[ret |-> on_command_error(st.cls), step |-> st, config |-> cfg,
            env |-> failed(en, "git tag", st.tag_name)]}
          \cup
          {[ret    |-> IF e.cmds[Len(e.cmds)].exit # 0
                       THEN on_push_error(st.cls) ELSE "True",
            step   |-> st,
            config |-> cfg,
            env    |-> e] :
              e \in IF cfg.push_tags THEN push_tag(st, created) ELSE {created}}

\* GitTagStep.rollback: the tag named after the current version is deleted
\* when it exists, locally and then on the remote; GitCommandError is caught.
GitTag_rollback(st, cfg, en) ==
    IF tag_exists(st, en)
    THEN
      LET deleted == [ran(en, "git tag -d", st.tag_name)
                          EXCEPT !.tags = @ \ {st.tag_name}]
          pushed  == [ran(deleted, "git push :refs/tags", st.tag_name)
                          EXCEPT !.remote_tags = @ \ {st.tag_name}]
      IN  {[raised |-> FALSE, config |-> cfg, env |-> e] :
              e \in IF cfg.push_tags
                    THEN {failed(deleted, "git push :refs/tags", st.tag_name), pushed}
                    ELSE {deleted}}
    ELSE {[raised |-> FALSE, config |-> cfg, env |-> en]}

-----------------------------------------------------------------------------
(* Build and publish steps, plugin steps *)

\* The command line each of these steps runs.
command_of(step_class) ==
    CASE step_class = "BuildPythonStep"     -> "python setup.py sdist bdist_wheel"
      [] step_class = "PublishPyPIStep"     -> "twine upload"
      [] step_class = "BuildRustStep"       -> "cargo build --release"
      [] step_class = "PublishCratesIoStep" -> "cargo publish"
      [] step_class = "BuildNodeStep"       -> "npm run build"
      [] step_class = "PublishNpmStep"      -> "npm publish"

\* execute of a build or publish step: exit 0 is True, CalledProcessError is
\* False, and a program that cannot be started raises FileNotFoundError.
Command_execute(st, cfg, en) ==
    {[ret |-> "True",  step |-> st, config |-> cfg,
      env |-> ran(en, command_of(st.cls), <<>>)],
     [ret |-> on_command_error(st.cls), step |-> st, config |-> cfg,
      env |-> failed(en, command_of(st.cls), <<>>)],
     [ret |-> "raise", step |-> st, config |-> cfg, env |-> en]}

\* A faulty rollback: a command is run to take the artifacts back.
Command_rollback_cleans(st, cfg, en) ==
    {[raised |-> FALSE, config |-> cfg, env |-> ran(en, "clean", <<>>)]}

\* rollback of a build or publish step: a message.
Command_rollback(st, cfg, en) ==
    {[raised |-> FALSE, config |-> cfg, env |-> en]}

\* A plugin's execute and rollback are arbitrary; they are taken to leave the
\* project alone.
Plugin_execute(st, cfg, en) ==
    {[ret |-> r, step |-> st, config |-> cfg, env |-> en] :
        r \in {"True", "False", "raise"}}

Plugin_rollback(st, cfg, en) ==
    {[raised |-> r, config |-> cfg, env |-> en] : r \in BOOLEAN}

-----------------------------------------------------------------------------
(* Dispatch on the class of the instance *)

\* step.execute()
execute(st, cfg, en) ==
    CASE st.cls = "VersionUpdateStep"   -> VersionUpdate_execute(st, cfg, en)
      [] st.cls = "ChangelogUpdateStep" -> ChangelogUpdate_execute(st, cfg, en)
      [] st.cls = "GitCommitStep"       -> GitCommit_execute(st, cfg, en)
      [] st.cls = "GitTagStep"          -> GitTag_execute(st, cfg, en)
      [] st.cls \in CommandClasses      -> Command_execute(st, cfg, en)
      [] OTHER                          -> Plugin_execute(st, cfg, en)

\* The fields rollback reads that only execute assigns: `if self.old_version`
\* (and self.new_version in the file writers), `if self.original_content`,
\* `if self.commit_hash`.  GitTagStep's tag_name is set by __init__.
captured_state(step_class) ==
    CASE step_class = "VersionUpdateStep"   -> {"old_version", "new_version"}
      [] step_class = "ChangelogUpdateStep" -> {"original_content"}
      [] step_class = "GitCommitStep"       -> {"commit_hash"}
      [] OTHER                              -> {}

\* step.rollback()
rollback(st, cfg, en) ==
    CASE st.cls = "VersionUpdateStep"   -> VersionUpdate_rollback(st, cfg, en)
      [] st.cls = "ChangelogUpdateStep" -> ChangelogUpdate_rollback(st, cfg, en)
      [] st.cls = "GitCommitStep"       -> GitCommit_rollback(st, cfg, en)
      [] st.cls = "GitTagStep"          -> GitTag_rollback(st, cfg, en)
      [] st.cls \in CommandClasses      -> Command_rollback(st, cfg, en)
      [] OTHER                          -> Plugin_rollback(st, cfg, en)

-----------------------------------------------------------------------------
(* State *)

VARIABLES
    _steps,          \* StepFactory._steps: name -> class
    config,          \* the CosmosysConfig every step shares
    env,             \* the project directory and its git repository
    steps,           \* execute_steps: the argument steps
    dry_run,         \* execute_steps: the argument dry_run
    pc,              \* where execute_steps is
    i,               \* execute_steps: position of step_name in steps
    step,            \* the local variable step: the instance in hand
    executed_steps,  \* rollback_steps: its argument
    todo,            \* rollback_steps: positions of executed_steps still to visit
    success,         \* execute_steps: the local variable success
    objects,         \* number of Step objects constructed so far
    calls,           \* every create, execute and rollback call made, in order
    before,          \* config and env as they were when execute_steps was entered
    reg_log,         \* every register call made, in order
    made,            \* the outcome of the last StepFactory.create called directly
    exit_status,     \* how the process of the release command ended, if it has
    plugin_dir,      \* the plugin directory on disk
    plugins_loaded,  \* whether load_plugins was called, and how it ended
    disk,            \* what load_config finds: the file, the directory, the manifest
    loaded,          \* whether load_config was called, and what came out
    settings,        \* CosmosysConfig.to_dict() of the loaded configuration
    accesses         \* every config.get and config.set call made, in order

registry_vars == <<_steps, reg_log, made>>
project_vars == <<config, env>>
run_vars == <<steps, dry_run, pc, i, step, executed_steps, todo, success, objects,
              calls, before>>
plugin_vars == <<plugin_dir, plugins_loaded>>
settings_vars == <<disk, loaded, settings, accesses>>
cli_vars == <<exit_status, plugin_dir, plugins_loaded, disk, loaded, settings, accesses>>
vars == <<_steps, config, env, steps, dry_run, pc, i, step, executed_steps, todo,
          success, objects, calls, before, reg_log, made, exit_status, plugin_dir,
          plugins_loaded, disk, loaded, settings, accesses>>

-----------------------------------------------------------------------------
(* Plugin discovery *)

MaxFiles == 2

\* dir(module) lists the attributes of a module in alphabetical order.
ClassOrder == <<"Helper", PluginClass, OtherPluginClass, "Step">>

\* The files a plugin directory may hold: the name without its extension,
\* the extension, whether importing the module succeeds, and the classes
\* among the module's attributes, in the order of dir(module).
PluginFiles ==
    {[stem |-> PluginName, ext |-> "py", importable |-> TRUE,
      attrs |-> <<PluginClass, "Step">>],
     [stem |-> "git_tag", ext |-> "py", importable |-> TRUE,
      attrs |-> <<"Helper", PluginClass, OtherPluginClass, "Step">>],
     [stem |-> "helpers", ext |-> "py", importable |-> TRUE,
      attrs |-> <<"Helper", "Step">>],
     [stem |-> "__init__", ext |-> "py", importable |-> TRUE,
      attrs |-> <<PluginClass>>],
     [stem |-> "notes", ext |-> "txt", importable |-> FALSE, attrs |-> <<>>],
     [stem |-> "broken", ext |-> "py", importable |-> FALSE, attrs |-> <<>>]}

\* os.listdir(plugin_dir): the files of the directory, in any order.
Listings ==
    {l \in UNION {[1..n -> PluginFiles] : n \in 0..MaxFiles} :
        \A a, b \in 1..Len(l) : a # b => l[a] # l[b]}

\* os.path.exists(plugin_dir) is false.
AbsentDir == [exists |-> FALSE, listing |-> <<>>]

PluginDirs == {AbsentDir} \cup {[exists |-> TRUE, listing |-> l] : l \in Listings}

\* filename.endswith(".py") and not filename.startswith("__")
discovered(file) == file.ext = "py" /\ file.stem \notin {"__init__", "__main__"}

\* isinstance(attr, type) and issubclass(attr, Step) and attr != Step
qualifies(attr) == attr \in {PluginClass, OtherPluginClass}

\* A faulty key: the name is derived from the class.
registration_name_of_class(file, attr) ==
    IF attr = PluginClass THEN PluginName ELSE UnknownName

\* plugin_name = filename[:-3], the key every class of the module is
\* registered under.
registration_name(file, attr) == file.stem

\* for attr_name in dir(module): ... StepFactory.register(plugin_name)(attr)
RECURSIVE register_attrs(_, _, _)
register_attrs(st, file, attrs) ==
    IF attrs = <<>> THEN st
    ELSE
      LET attr == Head(attrs)
          key  == registration_name(file, attr)
          nxt  == IF qualifies(attr)
                  THEN [st EXCEPT !.reg = register(@, key, attr),
                                  !.log = Append(@, [name |-> key, cls |-> attr])]
                  ELSE st
      IN  register_attrs(nxt, file, Tail(attrs))

\* for filename in os.listdir(plugin_dir): a module that cannot be imported
\* ends the loop with the exception of importlib.import_module.
RECURSIVE scan(_, _)
scan(st, listing) ==
    IF listing = <<>> THEN st
    ELSE
      LET file == Head(listing)
      IN  IF ~discovered(file) THEN scan(st, Tail(listing))
          ELSE IF ~file.importable THEN [st EXCEPT !.raised = TRUE]
          ELSE scan(register_attrs(st, file, file.attrs), Tail(listing))

\* PluginManager.load_plugins
load_plugins(dir, reg, log) ==
    LET st == [raised |-> FALSE, reg |-> reg, log |-> log]
    IN  IF ~dir.exists THEN st ELSE scan(st, dir.listing)

\* load_plugins has not been called and no plugin directory is there.
NoPlugins ==
    /\ plugin_dir = AbsentDir
    /\ plugins_loaded = "no"

-----------------------------------------------------------------------------
(* Configuration: load_config, get and set *)

MaxAccesses == 2

\* The nested dictionary of to_dict() as a map from key paths to what sits
\* there: "absent" (no such key, or None), "dict" or a string.
SettingPaths ==
    {<<"git">>, <<"git", "commit_message">>, <<"git", "commit_message", "x">>,
     <<"git", "remote">>, <<"git", "remote", "name">>,
     <<"plugins">>, <<"plugins", "directory">>,
     <<"project">>, <<"project", "version">>, <<"project", "homepage">>}

\* key.split(".") of the dot-separated keys get and set are called with.
SettingKeys == {p \in SettingPaths : Len(p) >= 2}

SetValues == {"alpha", "beta"}
Default == "fallback"

EmptyTree == [p \in SettingPaths |-> "absent"]

\* The fields of CosmosysConfig and of ProjectConfig among the keys above.
Sections == {"project", "git"}
ProjectFields == {"version"}

\* q lies strictly below p.
below(p, q) == Len(q) > Len(p) /\ SubSeq(q, 1, Len(p)) = p

\* CosmosysConfig.get: the loop over keys, at keys[k]; value is what sits at
\* the first k-1 keys (the whole dictionary when k = 1).
RECURSIVE get_from(_, _, _, _)
get_from(tree, keys, k, default) ==
    IF k > Len(keys) THEN tree[keys]
    ELSE IF k > 1 /\ tree[SubSeq(keys, 1, k - 1)] # "dict" THEN default
    ELSE IF tree[SubSeq(keys, 1, k)] = "absent" THEN default
    ELSE get_from(tree, keys, k + 1, default)

get(tree, keys, default) == get_from(tree, keys, 1, default)

\* for k in keys[:-1]: current = current.setdefault(k, {}); a string on the
\* way has no setdefault.
RECURSIVE descend(_, _, _)
descend(st, keys, k) ==
    IF k > Len(keys) - 1 THEN st
    ELSE IF k > 1 /\ st.tree[SubSeq(keys, 1, k - 1)] # "dict"
         THEN [st EXCEPT !.raised = TRUE]
    ELSE IF st.tree[SubSeq(keys, 1, k)] = "absent"
         THEN descend([st EXCEPT !.tree[SubSeq(keys, 1, k)] = "dict"], keys, k + 1)
    ELSE descend(st, keys, k + 1)

\* current[keys[-1]] = value: whatever sat at the key is replaced; a string
\* does not take item assignment.
assign(st, keys, value) ==
    IF st.raised THEN st
    ELSE IF st.tree[SubSeq(keys, 1, Len(keys) - 1)] # "dict"
         THEN [st EXCEPT !.raised = TRUE]
    ELSE [st EXCEPT !.tree = [p \in SettingPaths |->
                                 IF p = keys THEN value
                                 ELSE IF below(keys, p) THEN "absent"
                                 ELSE @[p]]]

\* from_dict keeps the keys that are fields of the dataclasses: a section
\* that is no field of CosmosysConfig, or a key of [project] that is no
\* field of ProjectConfig, is not in the object and so not in to_dict().
keeps(p) ==
    /\ p[1] \in Sections
    /\ (p[1] = "project" /\ Len(p) >= 2) => p[2] \in ProjectFields

\* self.__dict__.update(self.from_dict(config_dict).__dict__), read back
\* with to_dict()
from_dict(tree) == [p \in SettingPaths |-> IF keeps(p) THEN tree[p] ELSE "absent"]

\* CosmosysConfig.set
set(tree, keys, value) ==
    LET st == assign(descend([raised |-> FALSE, tree |-> tree], keys, 1), keys, value)
    IN  IF st.raised THEN [raised |-> TRUE, tree |-> tree]
        ELSE [raised |-> FALSE, tree |-> from_dict(st.tree)]

\* What load_config may find: the configuration file, the base name of the
\* working directory, and the version field of package.json ("none" when
\* there is no manifest).
Disks ==
    [file     : {"missing", "invalid_toml", "no_git", "valid"},
     cwd      : {"project", ""},
     manifest : {"none", "1.0.0", ""}]

NoDisk == [file |-> "missing", cwd |-> "project", manifest |-> "none"]
NotLoaded == [state |-> "no", is_auto_detected |-> FALSE]

\* from_file and validate: the errors they turn into ConfigurationError.
raises_ConfigurationError(d) == d.file \in {"missing", "invalid_toml", "no_git"}

\* detect_version: the manifest's version, "0.1.0" without a manifest.
detect_version(d) == IF d.manifest = "none" THEN "0.1.0" ELSE d.manifest

\* The dictionary of a configuration with this version.
tree_of(version) ==
    [p \in SettingPaths |->
        IF p \in {<<"git">>, <<"project">>} THEN "dict"
        ELSE IF p = <<"git", "commit_message">> THEN "Release {version}"
        ELSE IF p = <<"project", "version">> THEN version
        ELSE "absent"]

\* auto_detect_config: ProjectConfig.__post_init__ raises ConfigurationError
\* for an empty name or version.
auto_detect_config(d) ==
    IF d.cwd = "" \/ detect_version(d) = ""
    THEN [state |-> "raised", is_auto_detected |-> FALSE, tree |-> EmptyTree]
    ELSE [state |-> "returned", is_auto_detected |-> TRUE,
          tree |-> tree_of(detect_version(d))]

\* load_config: except ConfigurationError: return auto_detect_config()
load_config(d) ==
    IF raises_ConfigurationError(d) THEN auto_detect_config(d)
    ELSE [state |-> "returned", is_auto_detected |-> FALSE, tree |-> tree_of("1.0.0")]

\* load_config has not been called.
NoConfigAccess ==
    /\ disk = NoDisk
    /\ loaded = NotLoaded
    /\ settings = EmptyTree
    /\ accesses = <<>>

-----------------------------------------------------------------------------
(* Inputs *)

\* The names step lists are drawn from.
PipelineNames ==
    {"version_update", "changelog_update", "git_commit", "git_tag",
     "build_python", PluginName, UnknownName}

RECURSIVE lists_up_to(_, _)
lists_up_to(S, n) ==
    IF n = 0 THEN {<<>>}
    ELSE LET shorter == lists_up_to(S, n - 1) IN
         shorter \cup {Append(s, x) : s \in {t \in shorter : Len(t) = n - 1}, x \in S}

StepLists == lists_up_to(PipelineNames, MaxSteps)

\* The configuration at the start of a run: release() has stored the bump part.
InitConfigs ==
    [version         : {<<1, 0, 0>>},
     new_version     : {None},
     version_part    : {"patch"},
     files_to_commit : {<<"f1", "f2">>},
     commit_message  : {<<"Release", "{version}">>},
     push_tags       : {TRUE},
     update_git_tags : {FALSE}]

OldChangelog == <<changelog_header(<<0, 9, 0>>)>>

\* The project at the start of a run.
InitEnvs ==
    [changelog   : {[exists |-> TRUE, text |-> OldChangelog],
                    [exists |-> FALSE, text |-> <<>>]},
     commits     : {<<[id |-> 1, msg |-> format_message(<<"Initial">>, None),
                       stdout |-> <<1>>]>>},
     tags        : {{}, {<<1, 0, 0>>}, {<<1, 0, 1>>}},
     remote_tags : {{}},
     files       : {[toml   |-> [kind |-> "toml", exists |-> TRUE, version |-> <<1, 0, 0>>],
                     json   |-> [kind |-> "json", exists |-> TRUE, version |-> <<1, 0, 0>>],
                     python |-> [kind |-> "python", exists |-> FALSE, version |-> None],
                     other  |-> [kind |-> "other", exists |-> TRUE, version |-> <<1, 0, 0>>]]},
     cmds        : {<<>>}]

NoStep == new_step(NoClass, [version |-> None], 0)
NotMade == [name |-> "", out |-> "", at |-> 0]

-----------------------------------------------------------------------------
(* ReleaseManager.execute_steps and rollback_steps *)

\* A faulty test: a dry run executes too.
execute_always(dry) == TRUE

\* `if not dry_run`
should_execute(dry) == ~dry

\* A faulty test: inverted, `if not step.execute()`.
succeeded_inverted(ret) == ret # "True"

\* `if step.execute()`
succeeded(ret) == ret = "True"

\* A faulty loop: every other name of the list is skipped.
skip_position(k) == k + 2

\* `for step_name in steps`: the next name of the list.
next_position(k) == k + 1

\* A faulty handler: rollback_steps lets the exception out.
rollback_lets_out == FALSE

\* `except Exception` of rollback_steps: whatever a re-instantiation or a
\* rollback raises is caught.
rollback_catches == TRUE

call(op, pos, name, inst, out) ==
    [op |-> op, pos |-> pos, name |-> name, inst |-> inst, out |-> out]

\* The else branch of `if step.execute()` and the except clause alike:
\* self.rollback_steps(steps[: steps.index(step_name)]); success = False; break
fail_at(step_name) ==
    /\ executed_steps' = slice_before(steps, step_name)
    /\ todo' = reversed(slice_before(steps, step_name))
    /\ success' = FALSE
    /\ pc' = "rollback"

\* execute_steps is entered.
call_execute_steps ==
    /\ pc = "idle"
    /\ ~exit_status.exited
    /\ \E s \in StepLists, d \in BOOLEAN :
          /\ steps' = s
          /\ dry_run' = d
    /\ before' = [config |-> config, env |-> env]
    /\ success' = TRUE
    /\ i' = 1
    /\ pc' = "loop"
    /\ UNCHANGED <<cli_vars, registry_vars, project_vars, step, executed_steps, todo, objects, calls>>


\* The outcomes StepFactory.create can have for a class.
create_outcomes(step_class) ==
    IF unknown_step(step_class) THEN {"raise"}
    ELSE IF ctor_may_raise(step_class) THEN {"ok", "raise"}
    ELSE {"ok"}

\* for step_name in steps: step = StepFactory.create(step_name, self.config)
loop_create ==
    /\ pc = "loop"
    /\ i <= Len(steps)
    /\ \E out \in create_outcomes(lookup(_steps, steps[i])) :
          IF out = "ok"
          THEN /\ step' = new_step(lookup(_steps, steps[i]), config, objects + 1)
               /\ objects' = objects + 1
               /\ calls' = Append(calls, call("create", i, steps[i], objects + 1, out))
               /\ pc' = IF should_execute(dry_run) THEN "execute" ELSE "dry"
               /\ UNCHANGED <<executed_steps, todo, success>>
          ELSE /\ calls' = Append(calls, call("create", i, steps[i], 0, out))
               /\ fail_at(steps[i])
               /\ UNCHANGED <<step, objects>>
    /\ UNCHANGED <<cli_vars, registry_vars, project_vars, steps, dry_run, i, before>>

\* The dry-run branch: the step is reported and the loop goes on.
loop_dry_run ==
    /\ pc = "dry"
    /\ i' = next_position(i)
    /\ pc' = "loop"
    /\ UNCHANGED <<cli_vars, registry_vars, project_vars, steps, dry_run, step, executed_steps,
                   todo, success, objects, calls, before>>

\* step.execute(), and what the loop does with its result.
loop_execute ==
    /\ pc = "execute"
    /\ \E o \in execute(step, config, env) :
          /\ step' = o.step
          /\ config' = o.config
          /\ env' = o.env
          /\ calls' = Append(calls, call("execute", i, steps[i], step.id, o.ret))
          /\ IF succeeded(o.ret)
             THEN /\ i' = next_position(i)
                  /\ pc' = "loop"
                  /\ UNCHANGED <<executed_steps, todo, success>>
             ELSE /\ fail_at(steps[i])
                  /\ UNCHANGED i
    /\ UNCHANGED <<cli_vars, registry_vars, steps, dry_run, objects, before>>

\* for step_name in reversed(executed_steps): step = StepFactory.create(...)
rollback_create ==
    /\ pc = "rollback"
    /\ todo # <<>>
    /\ LET pos == Head(todo)
           step_name == executed_steps[pos]
       IN \E out \in create_outcomes(lookup(_steps, step_name)) :
             IF out = "ok"
             THEN /\ step' = new_step(lookup(_steps, step_name), config, objects + 1)
                  /\ objects' = objects + 1
                  /\ calls' = Append(calls, call("recreate", pos, step_name, objects + 1, out))
                  /\ pc' = "rollback_call"
                  /\ UNCHANGED todo
             ELSE /\ calls' = Append(calls, call("recreate", pos, step_name, 0, out))
                  /\ todo' = Tail(todo)
                  /\ pc' = IF rollback_catches THEN "rollback" ELSE "raised"
                  /\ UNCHANGED <<step, objects>>
    /\ UNCHANGED <<cli_vars, registry_vars, project_vars, steps, dry_run, i, executed_steps, success,
                   before>>

\* step.rollback()
rollback_call ==
    /\ pc = "rollback_call"
    /\ \E o \in rollback(step, config, env) :
          /\ config' = o.config
          /\ env' = o.env
          /\ calls' = Append(calls, call("rollback", Head(todo), executed_steps[Head(todo)],
                                         step.id, IF o.raised THEN "raise" ELSE "ok"))
          /\ pc' = IF o.raised /\ ~rollback_catches THEN "raised" ELSE "rollback"
    /\ todo' = Tail(todo)
    /\ UNCHANGED <<cli_vars, registry_vars, steps, dry_run, i, step, executed_steps, success, objects,
                   before>>

\* return success: the loop ran out, or broke and rollback_steps returned.
return_success ==
    /\ \/ pc = "loop" /\ i > Len(steps)
       \/ pc = "rollback" /\ todo = <<>>
    /\ pc' = "done"
    /\ UNCHANGED <<cli_vars, registry_vars, project_vars, steps, dry_run, i, step, executed_steps,
                   todo, success, objects, calls, before>>

\* The process of the command is running.
Running == [exited |-> FALSE, code |-> 0]

\* The process has ended with an exit code.
Exited(code) == [exited |-> TRUE, code |-> code]

\* A command function that returns normally ends the process with status
\* 0: release raises no typer.Exit and calls no sys.exit, whatever
\* execute_steps returned.
exit_code(ok) == 0

\* release, from typer.confirm on, answered with no: "Release process
\* cancelled." and return.
release_cancel ==
    /\ pc = "idle"
    /\ ~exit_status.exited
    /\ exit_status' = Exited(exit_code(TRUE))
    /\ UNCHANGED <<registry_vars, project_vars, run_vars, plugin_vars, settings_vars>>

\* release, after execute_steps: success = release_manager.execute_steps(...)
\* and display_footer(..., success); the function then returns.
release_return ==
    /\ pc = "done"
    /\ ~exit_status.exited
    /\ exit_status' = Exited(exit_code(success))
    /\ UNCHANGED <<registry_vars, project_vars, run_vars, plugin_vars, settings_vars>>

\* The executor before execute_steps is called.
IdleRun ==
    /\ steps = <<>>
    /\ dry_run = FALSE
    /\ pc = "idle"
    /\ i = 1
    /\ step = NoStep
    /\ executed_steps = <<>>
    /\ todo = <<>>
    /\ success = TRUE
    /\ objects = 0
    /\ calls = <<>>
    /\ before = [config |-> config, env |-> env]
    /\ exit_status = Running

Init ==
    /\ _steps = StartupRegistry
    /\ config \in InitConfigs
    /\ env \in InitEnvs
    /\ IdleRun
    /\ reg_log = <<>>
    /\ made = NotMade
    /\ NoPlugins
    /\ NoConfigAccess

Next ==
    \/ call_execute_steps
    \/ loop_create
    \/ loop_dry_run
    \/ loop_execute
    \/ rollback_create
    \/ rollback_call
    \/ return_success
    \/ release_cancel
    \/ release_return

Spec == Init /\ [][Next]_vars

-----------------------------------------------------------------------------
(* The registry on its own: register and create called directly *)

RegistryNames == {"version_update", "git_tag", PluginName}
RegistryClasses == {"VersionUpdateStep", PluginClass, OtherPluginClass}

\* @StepFactory.register(step_name) applied to step_class.
call_register ==
    /\ Len(reg_log) < MaxRegs
    /\ \E step_name \in RegistryNames, step_class \in RegistryClasses :
          /\ _steps' = register(_steps, step_name, step_class)
          /\ reg_log' = Append(reg_log, [name |-> step_name, cls |-> step_class])
    /\ UNCHANGED <<cli_vars, project_vars, steps, dry_run, pc, i, step, executed_steps, todo,
                   success, objects, calls, before, made>>

\* StepFactory.create(step_name, context): the class instantiated, or ValueError.
call_create ==
    /\ \E step_name \in RegistryNames \cup {UnknownName} :
          made' = [name |-> step_name,
                   out  |-> IF unknown_step(lookup(_steps, step_name))
                            THEN "ValueError" ELSE lookup(_steps, step_name),
                   at   |-> Len(reg_log)]
    /\ UNCHANGED <<cli_vars, _steps, reg_log, project_vars, steps, dry_run, pc, i, step,
                   executed_steps, todo, success, objects, calls, before>>

\* The registry is exercised before any project is touched.
InitRegistry ==
    /\ _steps = EmptyRegistry
    /\ config = CHOOSE c \in InitConfigs : TRUE
    /\ env = CHOOSE e \in InitEnvs : e.tags = {} /\ e.changelog.exists
    /\ IdleRun
    /\ reg_log = <<>>
    /\ made = NotMade
    /\ NoPlugins
    /\ NoConfigAccess

NextRegistry ==
    \/ call_register
    \/ call_create

SpecRegistry == InitRegistry /\ [][NextRegistry]_vars

-----------------------------------------------------------------------------
(* One step on its own: created, executed and rolled back directly *)

\* The versions, overrides and bump parts a step may find in the context.
StepVersions == {<<1, 0, 0>>, <<1, 2, 3>>, <<1, 2>>}
StepOverrides == {None, <<2, 0, 0>>, <<1, 2>>}
StepParts == {"", "major", "minor", "patch", "premajor", "prerelease", "bogus"}

StepConfigs ==
    [version         : StepVersions,
     new_version     : StepOverrides,
     version_part    : StepParts,
     files_to_commit : {<<>>, <<"f1", "f2">>},
     commit_message  : {<<"Release", "{version}">>},
     push_tags       : BOOLEAN,
     update_git_tags : BOOLEAN]

StepEnvs ==
    [changelog   : {[exists |-> TRUE, text |-> OldChangelog],
                    [exists |-> TRUE, text |-> <<>>],
                    [exists |-> FALSE, text |-> <<>>]},
     commits     : {<<[id |-> 1, msg |-> format_message(<<"Initial">>, None),
                       stdout |-> <<1>>]>>},
     tags        : {{}, {<<1, 0, 0>>, <<2, 0, 0>>}, {<<1, 2, 3>>}},
     remote_tags : {{}},
     files       : {[toml   |-> [kind |-> "toml", exists |-> TRUE, version |-> <<1, 0, 0>>],
                     json   |-> [kind |-> "json", exists |-> TRUE, version |-> <<1, 0, 0>>],
                     python |-> [kind |-> "python", exists |-> FALSE, version |-> None],
                     other  |-> [kind |-> "other", exists |-> TRUE, version |-> <<1, 0, 0>>]]},
     cmds        : {<<>>}]

\* step = StepFactory.create(step_name, context), called directly.
direct_create ==
    /\ pc = "idle"
    /\ \E step_name \in BuiltinNames :
       \E out \in create_outcomes(lookup(_steps, step_name)) :
          /\ steps' = <<step_name>>
          /\ IF out = "ok"
             THEN /\ step' = new_step(lookup(_steps, step_name), config, objects + 1)
                  /\ objects' = objects + 1
                  /\ calls' = Append(calls, call("create", 1, step_name, objects + 1, out))
                  /\ pc' = "made"
             ELSE /\ calls' = Append(calls, call("create", 1, step_name, 0, out))
                  /\ pc' = "raised"
                  /\ UNCHANGED <<step, objects>>
    /\ UNCHANGED <<cli_vars, registry_vars, project_vars, dry_run, i, executed_steps, todo,
                   success, before>>

\* step.execute(), called directly on the instance in hand.
direct_execute ==
    /\ pc = "made"
    /\ \E o \in execute(step, config, env) :
          /\ step' = o.step
          /\ config' = o.config
          /\ env' = o.env
          /\ calls' = Append(calls, call("execute", 1, steps[1], step.id, o.ret))
    /\ pc' = "executed"
    /\ UNCHANGED <<cli_vars, registry_vars, steps, dry_run, i, executed_steps, todo, success,
                   objects, before>>

\* step.rollback(), called directly on the instance in hand.
direct_rollback ==
    /\ pc \in {"made", "executed"}
    /\ \E o \in rollback(step, config, env) :
          /\ config' = o.config
          /\ env' = o.env
          /\ calls' = Append(calls, call("rollback", 1, steps[1], step.id,
                                         IF o.raised THEN "raise" ELSE "ok"))
    /\ pc' = "rolled_back"
    /\ UNCHANGED <<cli_vars, registry_vars, steps, dry_run, i, step, executed_steps, todo,
                   success, objects, before>>

InitStep ==
    /\ _steps = BuiltinRegistry
    /\ config \in StepConfigs
    /\ env \in StepEnvs
    /\ IdleRun
    /\ reg_log = <<>>
    /\ made = NotMade
    /\ NoPlugins
    /\ NoConfigAccess

NextStep ==
    \/ direct_create
    \/ direct_execute
    \/ direct_rollback

SpecStep == InitStep /\ [][NextStep]_vars

-----------------------------------------------------------------------------
(* Properties: vocabulary *)

\* The calls of one kind, in the order made, and their positions in steps.
Ops(op) == SelectSeq(calls, LAMBDA e : e.op = op)
Positions(op) == [k \in 1..Len(Ops(op)) |-> Ops(op)[k].pos]

Ascending(n) == [k \in 1..n |-> k]
Descending(n) == [k \in 1..n |-> n + 1 - k]
IsPrefix(a, b) == Len(a) <= Len(b) /\ a = SubSeq(b, 1, Len(a))

Distinct(s) == \A a, b \in 1..Len(s) : a # b => s[a] # s[b]
Registered(s) == \A k \in 1..Len(s) : _steps[s[k]] # NoClass

\* execute was called on the step at position p and ended with out.
ExecutedAt(p, out) ==
    \E k \in 1..Len(calls) :
        calls[k].op = "execute" /\ calls[k].pos = p /\ calls[k].out = out

\* execute of the step called name returned True.
Executed(name) ==
    \E k \in 1..Len(calls) :
        calls[k].op = "execute" /\ calls[k].name = name /\ calls[k].out = "True"

\* rollback_steps has been entered.
RollingBack == pc \in {"rollback", "rollback_call", "done"} /\ ~success

\* The positions rollback_steps re-instantiated successfully, in order.
Recreated ==
    LET ok == SelectSeq(calls, LAMBDA e : e.op = "recreate" /\ e.out = "ok")
    IN  [k \in 1..Len(ok) |-> ok[k].pos]

\* No constructor raised while rollback_steps ran.
AllRecreated ==
    \A k \in 1..Len(calls) : calls[k].op = "recreate" => calls[k].out = "ok"

\* Every instance rollback_steps creates has rollback called on it next.
RollbackFollowsRecreate ==
    \A k \in 1..Len(calls) :
        (calls[k].op = "recreate" /\ calls[k].out = "ok") =>
            IF k = Len(calls) THEN pc = "rollback_call"
            ELSE /\ calls[k + 1].op = "rollback"
                 /\ calls[k + 1].pos = calls[k].pos
                 /\ calls[k + 1].inst = calls[k].inst

-----------------------------------------------------------------------------
(* Properties of the executor *)

\* C1: in a run with dry_run=False over pairwise distinct registered names,
\* once the step at position p is the first whose execute returns False:
\* the run ends with False; nothing at a position after p is instantiated or
\* executed; the failing step is not rolled back; rollback_steps visits the
\* positions p-1, ..., 1 in exactly that order, each once, and calls rollback
\* exactly once on each instance it creates (every visited step, unless a
\* constructor raises during the rollback itself).
C1_FailurePath ==
    \A p \in 1..Len(steps) :
        (~dry_run /\ Distinct(steps) /\ Registered(steps) /\ ExecutedAt(p, "False")) =>
            /\ RollingBack
            /\ \A k \in 1..Len(calls) :
                  /\ calls[k].op \in {"create", "execute"} => calls[k].pos <= p
                  /\ calls[k].op \in {"recreate", "rollback"} => calls[k].pos < p
            /\ \A q \in 1..(p - 1) : ExecutedAt(q, "True")
            /\ IsPrefix(Positions("recreate"), Descending(p - 1))
            /\ RollbackFollowsRecreate
            /\ IsPrefix(Positions("rollback"), Recreated)
            /\ pc = "done" =>
                  /\ Positions("recreate") = Descending(p - 1)
                  /\ Positions("rollback") = Recreated

\* C1 witness: the third of three distinct steps failed and the first two
\* were rolled back, second first.
C1_Witness ==
    /\ pc = "done"
    /\ ~dry_run /\ Distinct(steps) /\ Registered(steps)
    /\ ExecutedAt(3, "False")
    /\ Positions("rollback") = <<2, 1>>
    /\ ~success

\* Nothing has gone wrong so far: every constructor returned and every
\* execute returned True.
AllSucceeded ==
    \A k \in 1..Len(calls) :
        /\ calls[k].op \in {"create", "recreate"} => calls[k].out = "ok"
        /\ calls[k].op = "execute" => calls[k].out = "True"

\* C2: in a run with dry_run=False over registered names in which every
\* step's execute returns True, execute is called once per position, in
\* order, no rollback is ever called, and the run ends with True.
C2_HappyPath ==
    (~dry_run /\ Registered(steps) /\ AllSucceeded) =>
        /\ success
        /\ pc \in {"idle", "loop", "execute", "done"}
        /\ Ops("recreate") = <<>> /\ Ops("rollback") = <<>>
        /\ Positions("execute") = Ascending(Len(Ops("execute")))
        /\ pc = "done" => Positions("execute") = Ascending(Len(steps))

\* C2 witness: three steps, one name twice, all executed, True returned.
C2_Witness ==
    /\ pc = "done"
    /\ ~dry_run /\ Registered(steps) /\ AllSucceeded
    /\ Len(steps) = 3 /\ ~Distinct(steps)
    /\ Positions("execute") = <<1, 2, 3>>
    /\ success

\* C3 (as claimed): when a run with dry_run=False over distinct registered
\* names ends with False because the execute of a later step returned False,
\* what the steps that had succeeded did is undone: the project version, the
\* changelog and the git history are those of before the run.
C3_RollbackRestores ==
    (/\ pc = "done" /\ ~dry_run /\ ~success
     /\ Distinct(steps) /\ Registered(steps)
     /\ \E p \in 1..Len(steps) : ExecutedAt(p, "False")
     /\ AllRecreated) =>
        /\ Executed("version_update") => config.version = before.config.version
        /\ Executed("changelog_update") => env.changelog = before.env.changelog
        /\ Executed("git_commit") => env.commits = before.env.commits

\* C4 (as claimed): every rollback of a run with dry_run=False is called on
\* the instance execute was called on, or is the rollback of a class that
\* reads nothing execute captured on the instance.
C4_InstancePolicy ==
    \A k \in 1..Len(calls) :
        (~dry_run /\ calls[k].op = "rollback") =>
            \/ \E l \in 1..(k - 1) :
                  /\ calls[l].op = "execute"
                  /\ calls[l].pos = calls[k].pos
                  /\ calls[l].inst = calls[k].inst
            \/ captured_state(_steps[calls[k].name]) = {}

\* C5 (as claimed): an exception raised by execute at position p is caught,
\* the run ends with False, no further step is instantiated or executed, and
\* the steps that had succeeded, those at p-1, ..., 1, are rolled back in
\* that order.
C5_ExceptionLikeFalse ==
    \A p \in 1..Len(steps) :
        (~dry_run /\ ExecutedAt(p, "raise")) =>
            /\ RollingBack
            /\ \A k \in 1..Len(calls) :
                  calls[k].op \in {"create", "execute"} => calls[k].pos <= p
            /\ pc = "done" => Positions("recreate") = Descending(p - 1)

\* C6: whatever a re-instantiation or a rollback raises inside
\* rollback_steps is caught there: the exception never leaves, and every
\* step of the list handed to rollback_steps is still visited, last first,
\* with rollback called on every instance created.
C6_RollbackBestEffort ==
    /\ pc # "raised"
    /\ RollingBack =>
          /\ IsPrefix(Positions("recreate"), Descending(Len(executed_steps)))
          /\ RollbackFollowsRecreate
          /\ pc = "done" => Positions("recreate") = Descending(Len(executed_steps))

\* C6 witness: a rollback raised, and the step before it in the list was
\* rolled back all the same.
C6_Witness ==
    /\ pc = "done"
    /\ \E k, l \in 1..Len(calls) :
          /\ k < l
          /\ calls[k].op = "rollback" /\ calls[k].out = "raise"
          /\ calls[l].op = "rollback" /\ calls[l].pos < calls[k].pos

\* C7: in a run with dry_run=True in which every constructor returns, no
\* execute and no rollback is called, the steps are instantiated once each in
\* list order, nothing of the project changes, and the run ends with True.
C7_DryRun ==
    (dry_run /\ AllSucceeded) =>
        /\ success
        /\ pc \in {"loop", "dry", "done"}
        /\ Ops("execute") = <<>> /\ Ops("rollback") = <<>> /\ Ops("recreate") = <<>>
        /\ Positions("create") = Ascending(Len(Ops("create")))
        /\ config = before.config /\ env = before.env
        /\ pc = "done" => Positions("create") = Ascending(Len(steps))

\* C7 witness: a dry run of three steps that ended with True.
C7_Witness ==
    /\ pc = "done"
    /\ dry_run /\ AllSucceeded
    /\ Positions("create") = <<1, 2, 3>>
    /\ success

\* C8 (as claimed): in a run with dry_run=True, whatever the list, no
\* execute and no rollback is called and the project is left as it was.
C8_DryRunNoEffect ==
    dry_run =>
        /\ \A k \in 1..Len(calls) : calls[k].op \notin {"execute", "rollback"}
        /\ env = before.env

\* C9: create for a name without registration raises and constructs
\* nothing; the run stops there: neither that step nor a later one is ever
\* executed or instantiated by the loop, and the run ends with False.
C9_UnknownStep ==
    \A k \in 1..Len(calls) :
        (calls[k].op = "create" /\ _steps[calls[k].name] = NoClass) =>
            /\ calls[k].out = "raise"
            /\ calls[k].inst = 0
            /\ RollingBack
            /\ \A l \in 1..Len(calls) :
                  /\ calls[l].op = "execute" => calls[l].pos < calls[k].pos
                  /\ calls[l].op = "create" => l <= k

\* C9 witness: the unknown name came second, after a step that executed.
C9_Witness ==
    /\ pc = "done"
    /\ ~dry_run
    /\ Len(steps) = 3 /\ steps[2] = UnknownName
    /\ ExecutedAt(1, "True")
    /\ ~success

\* C11: in every run the execute calls are made at positions 1, 2, ..., n
\* of the given list, each on the step the list names there, with no
\* position skipped, repeated or out of order; and a step at a position
\* after the first is executed on an instance created only after the
\* execute of the step just before it returned True (in a run with
\* dry_run=False no step after the first is even instantiated earlier).
C11_CallerOrder ==
    /\ Len(Ops("execute")) <= Len(steps)
    /\ Positions("execute") = Ascending(Len(Ops("execute")))
    /\ \A k \in 1..Len(Ops("execute")) : Ops("execute")[k].name = steps[k]
    /\ \A k \in 1..Len(calls) :
          (calls[k].pos > 1 /\
             (calls[k].op = "execute" \/ (calls[k].op = "create" /\ ~dry_run))) =>
              \E e, c \in 1..k :
                  /\ e < c
                  /\ calls[e].op = "execute"
                  /\ calls[e].pos = calls[k].pos - 1
                  /\ calls[e].out = "True"
                  /\ calls[c].op = "create"
                  /\ calls[c].pos = calls[k].pos
                  /\ calls[k].op = "execute" => calls[c].inst = calls[k].inst

\* C11 witness: of three distinct steps the first two were executed, first
\* then second, the second failed and the third was never touched.
C11_Witness ==
    /\ pc = "done"
    /\ ~dry_run /\ Len(steps) = 3 /\ Distinct(steps) /\ Registered(steps)
    /\ Positions("execute") = <<1, 2>>
    /\ ExecutedAt(1, "True") /\ ExecutedAt(2, "False")
    /\ Positions("create") = <<1, 2>>

\* The number of version_update executions that have returned True.
VersionUpdates ==
    Len(SelectSeq(calls, LAMBDA e : e.op = "execute" /\ e.name = "version_update"
                                       /\ e.out = "True"))

\* C12: in a run with dry_run=False, whenever a git_tag, git_commit or
\* changelog_update step that comes after a successful version_update
\* executes successfully, the version in the shared context is the one
\* version_update wrote, not the one the run started with, and it is the
\* version the step uses: the tag created is named after it, the commit
\* message carries it in place of {version}, the new changelog section is
\* headed by it.
C12_VersionPropagation ==
    [][ (/\ pc = "execute" /\ ~dry_run
         /\ Executed("version_update")
         /\ Len(calls') = Len(calls) + 1
         /\ calls'[Len(calls')].out = "True"
         /\ step.cls \in {"GitTagStep", "GitCommitStep", "ChangelogUpdateStep"}) =>
            /\ config.version # before.config.version
            /\ config.version = [before.config.version EXCEPT ![3] = @ + VersionUpdates]
            /\ step.cls = "GitTagStep" =>
                  /\ step.tag_name = config.version
                  /\ env'.tags = env.tags \cup {config.version}
                  /\ config.version \notin env.tags
            /\ step.cls = "GitCommitStep" =>
                  /\ Len(env'.commits) = Len(env.commits) + 1
                  /\ env'.commits[Len(env'.commits)].msg =
                         [text |-> config.commit_message, version |-> config.version]
            /\ step.cls = "ChangelogUpdateStep" =>
                  /\ Tail(env'.changelog.text) = env.changelog.text
                  /\ Head(env'.changelog.text).version = config.version
      ]_vars

\* C12 witness: version_update, git_commit, git_tag ran to the end from
\* 1.0.0: the commit message and the tag carry 1.0.1.
C12_Witness ==
    /\ pc = "done" /\ success /\ ~dry_run
    /\ steps = <<"version_update", "git_commit", "git_tag">>
    /\ before.config.version = <<1, 0, 0>>
    /\ env.commits[Len(env.commits)].msg.version = <<1, 0, 1>>
    /\ <<1, 0, 1>> \in env.tags /\ <<1, 0, 1>> \notin before.env.tags

-----------------------------------------------------------------------------
(* Properties of the steps *)

\* The last call made.
LastCall == calls[Len(calls)]

\* execute has just been called directly on a fresh instance of step_class.
DirectlyExecuted(step_class) ==
    /\ pc = "executed"
    /\ step.cls = step_class
    /\ LastCall.op = "execute"

\* The arithmetic of a bump, written out: what major, minor and patch must give.
Bumped(v, part) ==
    CASE part = "major" -> <<v[1] + 1, 0, 0>>
      [] part = "minor" -> <<v[1], v[2] + 1, 0>>
      [] part = "patch" -> <<v[1], v[2], v[3] + 1>>

\* C13: for a MAJOR.MINOR.PATCH version v and a part among major, minor and
\* patch, with no override configured, the bump gives (major+1, 0, 0),
\* (major, minor+1, 0) or (major, minor, patch+1); VersionUpdate.execute
\* computes exactly that as new_version, keeps v as old_version, and when it
\* returns True (always, unless a git tag it is asked to create exists) the
\* context version is that result.
C13_BumpArithmetic ==
    LET v    == before.config.version
        part == before.config.version_part
    IN  (/\ DirectlyExecuted("VersionUpdateStep")
         /\ Len(v) = 3
         /\ before.config.new_version = None
         /\ part \in {"major", "minor", "patch"}) =>
            /\ _bump_version_part(v, part) = [raised |-> FALSE, v |-> Bumped(v, part)]
            /\ step.old_version = v
            /\ step.new_version = Bumped(v, part)
            /\ LastCall.out \in {"True", "raise"}
            /\ ~config.update_git_tags => LastCall.out = "True"
            /\ LastCall.out = "True" => config.version = Bumped(v, part)
            /\ LastCall.out # "True" => config.version = v

\* C13 witness: 1.2.3 bumped at minor became 1.3.0, 1.2.3 still held as
\* old_version.
C13_Witness ==
    /\ DirectlyExecuted("VersionUpdateStep")
    /\ before.config.version = <<1, 2, 3>>
    /\ before.config.new_version = None
    /\ before.config.version_part = "minor"
    /\ LastCall.out = "True"
    /\ config.version = <<1, 3, 0>>
    /\ step.old_version = <<1, 2, 3>>

\* C14 (as claimed): when the context version does not have three numeric
\* components, VersionUpdate.execute returns False, it does not raise, and
\* the context version is left as it was.
C14_MalformedVersion ==
    (/\ DirectlyExecuted("VersionUpdateStep")
     /\ Len(before.config.version) # 3) =>
        /\ LastCall.out = "False"
        /\ config.version = before.config.version

\* C15 (as claimed): with a bump part outside major, minor and patch (and no
\* override), the bump fails with an error, and VersionUpdate.execute
\* returns False, never True, leaving the context version as it was.
C15_InvalidBumpPart ==
    LET v    == before.config.version
        part == before.config.version_part
    IN  (/\ DirectlyExecuted("VersionUpdateStep")
         /\ Len(v) = 3
         /\ before.config.new_version = None
         /\ part \notin {"", "major", "minor", "patch"}) =>
            /\ _bump_version_part(v, part).raised
            /\ LastCall.out = "False"
            /\ config.version = v

\* typer.prompt was called.
Prompted == \E k \in 1..Len(env.cmds) : env.cmds[k].cmd = "typer.prompt"

\* C16: VersionUpdate.execute on a well-formed current version takes the new
\* version from the override when one is configured, whatever the bump part
\* says, else from the configured bump part, and asks the user exactly when
\* neither is configured; with an override, the context version after an
\* execute that returned True is the override, component for component.
C16_SourcePrecedence ==
    LET v        == before.config.version
        part     == before.config.version_part
        override == before.config.new_version
    IN  (DirectlyExecuted("VersionUpdateStep") /\ Len(v) = 3) =>
            /\ Prompted <=> (override = None /\ part = "")
            /\ override # None =>
                  /\ LastCall.out = "True" => config.version = override
                  /\ step.new_version \in {override, None}
                  /\ (Len(override) = 3 /\ ~config.update_git_tags) =>
                        LastCall.out = "True"
            /\ (override = None /\ part \in {"major", "minor", "patch"}) =>
                  /\ step.new_version = Bumped(v, part)
                  /\ LastCall.out = "True" => config.version = Bumped(v, part)

\* C16 witness: override 2.0.0 and bump part minor both configured on
\* 1.2.3: the context version became 2.0.0 and nobody was asked.
C16_Witness ==
    /\ DirectlyExecuted("VersionUpdateStep")
    /\ before.config.version = <<1, 2, 3>>
    /\ before.config.new_version = <<2, 0, 0>>
    /\ before.config.version_part = "minor"
    /\ LastCall.out = "True"
    /\ config.version = <<2, 0, 0>>
    /\ ~Prompted

\* execute returned True and rollback was then called on the same instance
\* of step_class.
ExecutedThenRolledBack(step_class) ==
    /\ pc = "rolled_back"
    /\ step.cls = step_class
    /\ Len(calls) = 3
    /\ calls[2].op = "execute" /\ calls[2].out = "True"
    /\ calls[3].op = "rollback" /\ calls[3].inst = calls[2].inst

\* C17: for every well-formed starting version, after VersionUpdate.execute
\* returned True and rollback was called on the same instance, the context
\* version is the starting version again.
C17_VersionRoundTrip ==
    (ExecutedThenRolledBack("VersionUpdateStep") /\ valid_version(before.config.version)) =>
        /\ step.old_version = before.config.version
        /\ config.version = before.config.version

\* C17 witness: 1.2.3 went to 1.3.0 and came back to 1.2.3.
C17_Witness ==
    /\ ExecutedThenRolledBack("VersionUpdateStep")
    /\ before.config.version = <<1, 2, 3>>
    /\ step.new_version = <<1, 3, 0>>
    /\ config.version = <<1, 2, 3>>

\* The commit message execute must build: the template with {version}
\* replaced by the version of the context.
ExpectedMessage ==
    [text |-> before.config.commit_message, version |-> before.config.version]

\* What GitCommit.execute does when files_to_commit is empty: False, and
\* nothing run, staged, committed or recorded.
GitCommitRefused ==
    /\ LastCall.out = "False"
    /\ env = before.env
    /\ ~step.commit_hash.some

\* C18 (as claimed): GitCommit.execute returns False without any git
\* operation when files_to_commit is empty; otherwise it stages exactly the
\* configured files, commits once with the formatted message, records the
\* last token of the commit output and returns True.
C18_GitCommitAsClaimed ==
    DirectlyExecuted("GitCommitStep") =>
        IF before.config.files_to_commit = <<>>
        THEN GitCommitRefused
        ELSE /\ Len(env.cmds) = 2
             /\ env.cmds[1].cmd = "git add"
             /\ env.cmds[1].arg = before.config.files_to_commit
             /\ env.cmds[2].cmd = "git commit"
             /\ env.cmds[2].arg = ExpectedMessage
             /\ step.commit_hash.some
             /\ LastCall.out = "True"

\* C18 (amended): GitCommit.execute returns False without any git operation
\* when files_to_commit is empty; otherwise it issues one stage operation
\* for exactly the configured files and, if that exits zero, one commit
\* whose message is the template with {version} replaced by the context
\* version.  If both exit zero it records the last token of the commit
\* output and returns True; if either exits non-zero it runs nothing
\* further, records no identifier and returns False.
C18_GitCommit ==
    DirectlyExecuted("GitCommitStep") =>
        IF before.config.files_to_commit = <<>>
        THEN GitCommitRefused
        ELSE /\ Len(env.cmds) \in {1, 2}
             /\ env.cmds[1].cmd = "git add"
             /\ env.cmds[1].arg = before.config.files_to_commit
             /\ Len(env.cmds) = 2 <=> env.cmds[1].exit = 0
             /\ Len(env.cmds) = 2 =>
                   /\ env.cmds[2].cmd = "git commit"
                   /\ env.cmds[2].arg = ExpectedMessage
             /\ IF \A k \in 1..Len(env.cmds) : env.cmds[k].exit = 0
                THEN /\ LastCall.out = "True"
                     /\ Len(env.commits) = Len(before.env.commits) + 1
                     /\ LET made_commit == env.commits[Len(env.commits)]
                        IN  /\ made_commit.msg = ExpectedMessage
                            /\ step.commit_hash =
                                   [some |-> TRUE,
                                    tok  |-> made_commit.stdout[Len(made_commit.stdout)]]
                ELSE /\ LastCall.out = "False"
                     /\ env.commits = before.env.commits
                     /\ ~step.commit_hash.some
             /\ config = before.config

\* C18 witness: f1 and f2 were staged, the commit exited non-zero, and
\* execute returned False with no identifier recorded.
C18_Witness ==
    /\ DirectlyExecuted("GitCommitStep")
    /\ before.config.files_to_commit = <<"f1", "f2">>
    /\ Len(env.cmds) = 2
    /\ env.cmds[1].exit = 0 /\ env.cmds[2].exit = 1
    /\ LastCall.out = "False"
    /\ ~step.commit_hash.some

\* C19: GitTag.execute works on the tag named after the context version.
\* If a tag of that name exists it returns False and runs no git command at
\* all: no tag is created, replaced or pushed and the tags, local and
\* remote, are as before.  A tag is created only when none of that name
\* existed, and then it is the only tag added.
C19_GitTagOnlyWhenAbsent ==
    DirectlyExecuted("GitTagStep") =>
        /\ step.tag_name = before.config.version
        /\ IF step.tag_name \in before.env.tags
           THEN /\ LastCall.out = "False"
                /\ env = before.env
           ELSE /\ LastCall.out \in {"True", "False"}
                /\ env.tags = IF LastCall.out = "True"
                              THEN before.env.tags \cup {step.tag_name}
                              ELSE before.env.tags
                /\ env.remote_tags \subseteq {step.tag_name}
                /\ env.remote_tags # {} => (config.push_tags /\ LastCall.out = "True")
        /\ \A k \in 1..Len(env.cmds) :
              env.cmds[k].cmd \in {"git tag", "git push"} =>
                  step.tag_name \notin before.env.tags

\* C19 witness: v1.0.0 existed; execute returned False and nothing changed.
C19_Witness ==
    /\ DirectlyExecuted("GitTagStep")
    /\ before.config.version = <<1, 0, 0>>
    /\ before.config.push_tags
    /\ <<1, 0, 0>> \in before.env.tags
    /\ LastCall.out = "False"
    /\ env = before.env

\* The classes of the built-in steps that wrap an external command.
WrapsCommand == {"GitCommitStep", "GitTagStep"} \cup CommandClasses

\* The command a step wraps exited non-zero: staging or committing,
\* creating the tag, building or publishing (the optional push of a new tag
\* is not the step's command).
OwnCommandFailed ==
    \E k \in 1..Len(env.cmds) :
        env.cmds[k].exit # 0 /\ env.cmds[k].cmd # "git push"

C21_CommandRollbackInert ==
    [][(pc # "rolled_back" /\ pc' = "rolled_back" /\ step.cls \in CommandClasses) =>
          /\ env' = env
          /\ config' = config
          /\ calls'[Len(calls')].op = "rollback"
          /\ calls'[Len(calls')].out = "ok"]_vars

\* C21 witness: twine upload succeeded, rollback was then called, and the
\* upload is still the only command that ran.
C21_Witness ==
    /\ ExecutedThenRolledBack("PublishPyPIStep")
    /\ calls[3].out = "ok"
    /\ Len(env.cmds) = 1
    /\ env.cmds[1].cmd = "twine upload"
    /\ env.cmds[1].exit = 0
    /\ config = before.config

\* The number of execute calls of the run that returned True.
SucceededCount ==
    Len(SelectSeq(calls, LAMBDA e : e.op = "execute" /\ e.out = "True"))

\* C26 (as claimed): when a run that is not dry stops at position p, the
\* steps re-instantiated for rollback are the occurrences at positions
\* p-1, ..., 1, each of which executed successfully, in that order, also
\* when a name occurs more than once in the list.
C26_RollbackSet ==
    (pc = "done" /\ ~success /\ ~dry_run) =>
        Positions("recreate") = Descending(SucceededCount)

\* C27 (as claimed): for every content CHANGELOG.md had before, an empty
\* file included, execute followed by rollback on the same instance leaves
\* the file with that content; with no CHANGELOG.md, execute returns False
\* and creates no file.
C27_ChangelogRoundTrip ==
    /\ ExecutedThenRolledBack("ChangelogUpdateStep") =>
          env.changelog = before.env.changelog
    /\ (DirectlyExecuted("ChangelogUpdateStep") /\ ~before.env.changelog.exists) =>
          /\ LastCall.out = "False"
          /\ env = before.env

\* C28 (as claimed): after VersionUpdate.execute returned True and rollback
\* was called on the same instance, every project file that carries the
\* version holds the version string it held before execute.
C28_FilesRestored ==
    ExecutedThenRolledBack("VersionUpdateStep") =>
        \A n \in DOMAIN env.files :
            env.files[n].version = before.env.files[n].version

\* C29 (as claimed): in every run, dry or not, a tag that existed when the
\* run started exists at every later point of the run.
C29_ForeignTagsKept ==
    before.env.tags \subseteq env.tags

\* The push of a new tag has just failed inside execute.
PushJustFailed ==
    /\ Len(env'.cmds) = Len(env.cmds) + 2
    /\ env'.cmds[Len(env'.cmds)].cmd = "git push"
    /\ env'.cmds[Len(env'.cmds)].exit # 0

\* C30: with git.push_tags on, when the tag is created and its push fails,
\* execute returns True, the tag exists locally and not on the remote, the
\* run goes on to the next position and nothing is rolled back.
C30_PushFailureTolerated ==
    [][(pc = "execute" /\ step.cls = "GitTagStep" /\ config.push_tags /\ PushJustFailed) =>
          /\ calls'[Len(calls')].op = "execute"
          /\ calls'[Len(calls')].out = "True"
          /\ step.tag_name \in env'.tags
          /\ step.tag_name \notin env'.remote_tags
          /\ pc' = "loop"
          /\ i' = i + 1
          /\ success'
          /\ todo' = <<>>]_vars

\* C30 witness: a run of git_tag alone ended with True although the push
\* of v1.0.0 had failed; the tag is there and no rollback was called.
C30_Witness ==
    /\ pc = "done" /\ success /\ ~dry_run
    /\ steps = <<"git_tag">>
    /\ Len(env.cmds) = 2
    /\ env.cmds[2].cmd = "git push" /\ env.cmds[2].exit # 0
    /\ <<1, 0, 0>> \in env.tags
    /\ env.remote_tags = {}
    /\ Ops("rollback") = <<>>

\* C22 (as claimed): the release command exits with status 0 when
\* execute_steps returned True and with a status other than 0 when it
\* returned False.
C22_ExitStatus ==
    (exit_status.exited /\ pc = "done") =>
        (exit_status.code = 0 <=> success)

-----------------------------------------------------------------------------
(* Properties of the registry *)

\* The class of the last register call for name in log, if any.
RECURSIVE LastRegistered(_, _)
LastRegistered(log, name) ==
    IF log = <<>> THEN NoClass
    ELSE IF log[Len(log)].name = name THEN log[Len(log)].cls
    ELSE LastRegistered(SubSeq(log, 1, Len(log) - 1), name)

\* C10: after any sequence of register calls every name resolves to the
\* class of the last call that named it (and to nothing when no call did),
\* and create instantiates that class.
C10_LastRegistrationWins ==
    /\ \A n \in Names : lookup(_steps, n) = LastRegistered(reg_log, n)
    /\ made # NotMade =>
          LET cls == LastRegistered(SubSeq(reg_log, 1, made.at), made.name)
          IN  made.out = IF cls = NoClass THEN "ValueError" ELSE cls

\* C10 witness: a name registered twice with different classes, then
\* created: the second class came out, and another name kept its class.
C10_Witness ==
    /\ Len(reg_log) = 3
    /\ reg_log[1].name = reg_log[3].name
    /\ reg_log[1].cls # reg_log[3].cls
    /\ reg_log[2].name # reg_log[1].name
    /\ _steps[reg_log[2].name] = reg_log[2].cls
    /\ made.name = reg_log[1].name /\ made.at = 3
    /\ made.out = reg_log[3].cls

-----------------------------------------------------------------------------
(* Plugin discovery at start-up *)

\* PluginManager.load_plugins(), called once by the callback of the
\* command line.
call_load_plugins ==
    /\ plugins_loaded = "no"
    /\ LET out == load_plugins(plugin_dir, _steps, reg_log)
       IN  /\ _steps' = out.reg
           /\ reg_log' = out.log
           /\ plugins_loaded' = IF out.raised THEN "raised" ELSE "yes"
    /\ UNCHANGED <<project_vars, run_vars, made, exit_status, plugin_dir, settings_vars>>

\* cosmosys.steps is imported, so every built-in is registered, and the
\* plugin directory is whatever the project holds.
InitPlugins ==
    /\ _steps = BuiltinRegistry
    /\ config = CHOOSE c \in InitConfigs : TRUE
    /\ env = CHOOSE e \in InitEnvs : e.tags = {} /\ e.changelog.exists
    /\ IdleRun
    /\ reg_log = <<>>
    /\ made = NotMade
    /\ plugin_dir \in PluginDirs
    /\ plugins_loaded = "no"
    /\ NoConfigAccess

NextPlugins ==
    \/ call_load_plugins
    \/ call_create

SpecPlugins == InitPlugins /\ [][NextPlugins]_vars

\* The files of the directory load_plugins imports.
Discovered ==
    {plugin_dir.listing[k] : k \in {j \in 1..Len(plugin_dir.listing) :
                                       discovered(plugin_dir.listing[j])}}

\* The classes of a module that are steps, the base class left out.
StepKinds(file) ==
    {file.attrs[k] : k \in {j \in 1..Len(file.attrs) :
                               file.attrs[j] \in {PluginClass, OtherPluginClass}}}

\* C23: load_plugins with no plugin directory returns without error and
\* leaves the registry as it was. With a directory whose modules import,
\* every step class of a discovered module, the base class excepted, is
\* registered under the module's file name: afterwards that name resolves
\* to one of the module's step classes, the last one registered, also when
\* the name was a built-in's; every other name resolves as before, so no
\* class name becomes a key.
C23_PluginDiscovery ==
    [][(plugins_loaded = "no" /\ plugins_loaded' # "no") =>
          /\ ~plugin_dir.exists =>
                /\ plugins_loaded' = "yes"
                /\ _steps' = _steps
                /\ reg_log' = reg_log
          /\ (plugin_dir.exists /\ plugins_loaded' = "yes") =>
                \A n \in Names :
                    IF \E f \in Discovered : f.stem = n /\ StepKinds(f) # {}
                    THEN \E f \in Discovered :
                            /\ f.stem = n
                            /\ _steps'[n] \in StepKinds(f)
                            /\ _steps'[n] = LastRegistered(reg_log', n)
                            /\ \A c \in StepKinds(f) :
                                  \E k \in 1..Len(reg_log') :
                                      reg_log'[k] = [name |-> n, cls |-> c]
                    ELSE _steps'[n] = _steps[n]]_vars

\* C23 witness: git_tag.py defines two step classes besides a helper; after
\* load_plugins the name git_tag resolves to the second and no longer to
\* GitTagStep, and create gives that class.
C23_Witness ==
    /\ plugins_loaded = "yes"
    /\ Len(plugin_dir.listing) = 2
    /\ plugin_dir.listing[1].stem = "__init__"
    /\ plugin_dir.listing[2].stem = "git_tag"
    /\ reg_log = <<[name |-> "git_tag", cls |-> PluginClass],
                   [name |-> "git_tag", cls |-> OtherPluginClass]>>
    /\ _steps["git_tag"] = OtherPluginClass
    /\ _steps[PluginName] = NoClass
    /\ made.name = "git_tag" /\ made.out = OtherPluginClass

-----------------------------------------------------------------------------
(* Loading and accessing the configuration *)

\* CosmosysContext.__init__: self.config = load_config(config_file)
call_load_config ==
    /\ loaded.state = "no"
    /\ LET out == load_config(disk)
       IN  /\ loaded' = [state |-> out.state, is_auto_detected |-> out.is_auto_detected]
           /\ settings' = out.tree
    /\ UNCHANGED <<registry_vars, project_vars, run_vars, exit_status, plugin_vars,
                   disk, accesses>>

\* config.set(key, value)
call_set ==
    /\ loaded.state = "returned"
    /\ Len(accesses) < MaxAccesses
    /\ \E keys \in SettingKeys, value \in SetValues :
          LET out == set(settings, keys, value)
          IN  /\ settings' = out.tree
              /\ accesses' = Append(accesses,
                                    [op |-> "set", keys |-> keys, arg |-> value,
                                     out |-> IF out.raised THEN "raise" ELSE "None"])
    /\ UNCHANGED <<registry_vars, project_vars, run_vars, exit_status, plugin_vars,
                   disk, loaded>>

\* config.get(key, default)
call_get ==
    /\ loaded.state = "returned"
    /\ Len(accesses) < MaxAccesses
    /\ \E keys \in SettingKeys :
          accesses' = Append(accesses,
                             [op |-> "get", keys |-> keys, arg |-> Default,
                              out |-> get(settings, keys, Default)])
    /\ UNCHANGED <<registry_vars, project_vars, run_vars, exit_status, plugin_vars,
                   disk, loaded, settings>>

InitConfig ==
    /\ _steps = BuiltinRegistry
    /\ config = CHOOSE c \in InitConfigs : TRUE
    /\ env = CHOOSE e \in InitEnvs : e.tags = {} /\ e.changelog.exists
    /\ IdleRun
    /\ reg_log = <<>>
    /\ made = NotMade
    /\ NoPlugins
    /\ disk \in Disks
    /\ loaded = NotLoaded
    /\ settings = EmptyTree
    /\ accesses = <<>>

NextConfig ==
    \/ call_load_config
    \/ call_set
    \/ call_get

SpecConfig == InitConfig /\ [][NextConfig]_vars

\* C24 (as claimed): whenever reading or validating the configuration file
\* raises ConfigurationError (no file, invalid TOML, no git section),
\* load_config returns, and what it returns is the auto-detected
\* configuration with is_auto_detected set.
C24_NeverFatal ==
    (loaded.state # "no" /\ raises_ConfigurationError(disk)) =>
        /\ loaded.state = "returned"
        /\ loaded.is_auto_detected

\* A segment of the path keys is missing from the dictionary.
SegmentAbsent(keys) ==
    \E k \in 1..Len(keys) : settings[SubSeq(keys, 1, k)] = "absent"

\* C25 (as claimed): a get that follows a set of the same key which
\* returned gives the value set; and a get of a key one of whose segments
\* is absent gives the default.
C25_DotPath ==
    /\ \A k \in 1..(Len(accesses) - 1) :
          (/\ accesses[k].op = "set" /\ accesses[k].out = "None"
           /\ accesses[k + 1].op = "get"
           /\ accesses[k + 1].keys = accesses[k].keys) =>
              accesses[k + 1].out = accesses[k].arg
    /\ (accesses # <<>> /\ accesses[Len(accesses)].op = "get"
        /\ SegmentAbsent(accesses[Len(accesses)].keys)) =>
          accesses[Len(accesses)].out = Default

====
